---- MODULE Spec2Model ----
(***************************************************************************)
(* Model of ffmpeg-frame-encoder: the collector (sink.rs), the encode      *)
(* worker's drive loop and its thread wrapper (encoder.rs), and the pure   *)
(* helpers frame_from_video_plane and the audio de-interleaving.           *)
(*                                                                         *)
(* The codec/container library is outside the repository.  Its calls are   *)
(* modelled at their call sites by the set of results the call can return  *)
(* according to the library's documented contract:                         *)
(*   - a filter graph holds whole output frames; pulling answers a frame   *)
(*     when one is held and WouldBlock (errno 11) when none is;            *)
(*   - an encoder refuses a frame with Eof once it has accepted the        *)
(*     end-of-stream signal, and may refuse it with WouldBlock while it    *)
(*     holds a packet that has not been retrieved;                         *)
(*   - an encoder hands out packets, WouldBlock while it needs input, and  *)
(*     Eof once it is flushed and empty;                                   *)
(*   - the container refuses a packet whose stream index is not one of its *)
(*     streams.                                                            *)
(***************************************************************************)
EXTENDS Integers, Sequences, FiniteSets, TLC

(* ------------------------------ bounds --------------------------------- *)

\* frames the producer enqueues in one run
MaxFrames == 3

\* collector calls in one run, samples of one batch, first sample values,
\* frame numbers
MaxCalls == 2

MaxPcm == 4

MaxSample == 2

MaxSeq == 1

\* bytes of a VideoPlane's data, its width and height, its pitch and the stride
MaxLen == 6

MaxDim == 2

MaxPitch == 3

\* output frames one pushed audio plane can yield from the audio filter graph
MaxChunks == 3

\* width in bits of Frame.frame_number and of the pts, standing for 64
PtsBits == 4

\* write_log calls of one run whose messages are followed through the log channel
MaxEvents == 3

(* ------------------------------ state ---------------------------------- *)

VARIABLES
    receiver,                 \* the unbounded channel producer -> worker (Sink)
    sent,                     \* number of frames the producer has enqueued
    prodArgs,                 \* producer: OutputArgs of its first configure, or "None"
    prodEnded,                \* producer: end() has been called
    senderAlive,              \* producer still holds a Sender of the channel
    pc,                       \* worker thread position
    ffmpeg_context,           \* "None" or the OutputArgs the Session was built from
    is_ending,                \* CollectedAVFfmpegEncoder.is_ending
    ffmpeg_operations,        \* stage table: slot -> bound?
    eof_was_sent_to_encoders, \* local of read_collector_to_end
    operation_results,        \* outcomes recorded in the current iteration
    operation_index,          \* loop variable of the stage evaluation
    filt,                     \* stream -> output frames held by its filter graph
    encIn,                    \* stream -> frames the encoder accepted and still holds
    encOut,                   \* stream -> packets ready for retrieval
    draining,                 \* stream -> encoder has accepted end-of-stream
    dropped,                  \* stream -> a pulled frame was refused by the encoder
    written,                  \* stream -> packets written to the container
    eofAnswer,                \* stream -> answer to send_eof in the latest flush check
    trailers,                 \* number of write_trailer calls that succeeded
    loopResult,               \* result of read_collector_to_end
    joinResult,               \* what JoinHandle::join of the worker thread yields
    logger,                   \* "none" (no log path), "alive", "dead" (channel closed)
    rejected,                 \* rejections of a Configure frame printed so far
    sessionsBuilt,            \* successful FfmpegContext::new calls
    audio_buf,                \* RetroAVCollector.audio_buf
    sinkq,                    \* frames with payload sent by the collector
    lastCall,                 \* the collector call that produced the current state
    ncalls,                   \* collector calls made
    vplane,                   \* VideoPlane handed to frame_from_video_plane
    stride,                   \* vframe.stride(0)
    vframe_plane,             \* destination plane: index -> source index or -1
    y,                        \* row the copy loop is at
    copyState,                \* "idle", "input", "rows", "done" or "panic"
    callResult,               \* what the producer's latest collector call returned
    touched,                  \* stream -> a filter or encoder call was made on it
    set_stream,               \* stream -> index put on its latest packet, -1 if none
    stampSeq,                 \* stream -> frame_number of the frame stamped last, -1 if none
    stampPts,                 \* stream -> pts set on that frame
    logq,                     \* messages in the log channel, oldest first
    logged,                   \* events write_log has put on the log channel
    logCalls,                 \* write_log calls made
    rows,                     \* table rows the logger thread has written
    tableClosed,              \* the logger thread has written the closing markup
    sentinels                 \* sends of LogMessage::Eof the worker thread has made

workerVars == <<pc, ffmpeg_context, is_ending, ffmpeg_operations,
                eof_was_sent_to_encoders, operation_results, operation_index,
                trailers, loopResult, joinResult, rejected, sessionsBuilt>>
backendVars == <<filt, encIn, encOut, draining, dropped, written, eofAnswer,
                 touched, set_stream>>
producerVars == <<receiver, sent, prodArgs, prodEnded, senderAlive, callResult>>
sinkVars == <<audio_buf, sinkq, lastCall, ncalls>>
copyVars == <<vplane, stride, vframe_plane, y, copyState>>
ptsVars == <<stampSeq, stampPts>>
logVars == <<logq, logged, logCalls, rows, tableClosed, sentinels>>

vars == <<receiver, sent, prodArgs, prodEnded, senderAlive, pc, ffmpeg_context,
          is_ending, ffmpeg_operations, eof_was_sent_to_encoders,
          operation_results, operation_index, filt, encIn, encOut, draining,
          dropped, written, eofAnswer, trailers, loopResult, joinResult, logger,
          rejected, sessionsBuilt, audio_buf, sinkq, lastCall, ncalls, vplane,
          stride, vframe_plane, y, copyState, callResult, touched, set_stream,
          stampSeq, stampPts, logq, logged, logCalls, rows, tableClosed,
          sentinels>>

(* --------------------------- data model -------------------------------- *)

Streams == {"video", "audio"}

OutputArgs == {"AudioVideo", "Video", "Audio"}

HasVideo(args) == args \in {"Video", "AudioVideo"}

HasAudio(args) == args \in {"Audio", "AudioVideo"}

Active(ctx, s) ==
    /\ ctx # "None"
    /\ IF s = "video" THEN HasVideo(ctx) ELSE HasAudio(ctx)

\* FrameData without the payload of the planes
FrameData ==
    {[data |-> "Video", args |-> "-"], [data |-> "Audio", args |-> "-"],
     [data |-> "End", args |-> "-"]}
    \cup {[data |-> "Configure", args |-> a] : a \in OutputArgs}

\* slots 0 and 1 are the filter stages, 2 and 3 the encoder stages
StreamOf(i) == IF i \in {0, 2} THEN "video" ELSE "audio"

NoResults == [i \in 0..3 |-> "None"]

NoAnswers == [s \in Streams |-> "none"]

\* number of streams FfmpegContext::new added to the container
NbStreams(ctx) ==
    (IF Active(ctx, "video") THEN 1 ELSE 0) + (IF Active(ctx, "audio") THEN 1 ELSE 0)

\* index set_stream puts on a packet of stream s
PacketStreamIndex(s) == IF s = "video" THEN 0 ELSE 1

\* index add_stream gave the stream of kind s (video is added first)
ContainerIndex(ctx, s) ==
    IF s = "video" THEN 0 ELSE IF Active(ctx, "video") THEN 1 ELSE 0

\* write_log: sending fails when every receiver of the log channel is gone
WriteLogOk == logger # "dead"

(* ---------------------------- initial state ---------------------------- *)

\* the collector's own state after RetroAVCollector::new
SinkInit ==
    /\ audio_buf = <<>>
    /\ sinkq = <<>>
    /\ lastCall = [op |-> "new", pcm |-> <<>>, seq |-> 0]
    /\ ncalls = 0

\* no plane has been handed to frame_from_video_plane
CopyIdle ==
    /\ vplane = [len |-> 0, width |-> 0, height |-> 0, pitch |-> 0]
    /\ stride = 0
    /\ vframe_plane = <<>>
    /\ y = 0
    /\ copyState = "idle"

\* the state start_thread builds before the worker thread runs its loop
WorkerInit ==
    /\ receiver = <<>>
    /\ sent = 0
    /\ prodArgs = "None"
    /\ prodEnded = FALSE
    /\ senderAlive = TRUE
    /\ pc = "bind"
    /\ ffmpeg_context = "None"
    /\ is_ending = FALSE
    /\ ffmpeg_operations = [i \in 0..3 |-> FALSE]
    /\ eof_was_sent_to_encoders = FALSE
    /\ operation_results = NoResults
    /\ operation_index = 0
    /\ filt = [s \in Streams |-> 0]
    /\ encIn = [s \in Streams |-> 0]
    /\ encOut = [s \in Streams |-> 0]
    /\ draining = [s \in Streams |-> FALSE]
    /\ dropped = [s \in Streams |-> FALSE]
    /\ written = [s \in Streams |-> 0]
    /\ eofAnswer = NoAnswers
    /\ trailers = 0
    /\ loopResult = "running"
    /\ joinResult = "none"
    /\ rejected = 0
    /\ sessionsBuilt = 0
    /\ callResult = "none"
    /\ touched = [s \in Streams |-> FALSE]
    /\ set_stream = [s \in Streams |-> -1]

\* no frame has been stamped
NothingStamped ==
    /\ stampSeq = [s \in Streams |-> -1]
    /\ stampPts = [s \in Streams |-> 0]

\* the log channel right after HtmlTableLogger::new
LogIdle ==
    /\ logq = <<>>
    /\ logged = 0
    /\ logCalls = 0
    /\ rows = 0
    /\ tableClosed = FALSE
    /\ sentinels = 0

Init ==
    /\ WorkerInit
    /\ logger \in {"none", "alive"}
    /\ SinkInit
    /\ CopyIdle
    /\ NothingStamped
    /\ LogIdle

(* ------------------------------ producer ------------------------------- *)

\* Configure first, then frames of the configured streams, then End, then nothing
WellFormed(f) ==
    IF prodArgs = "None"
    THEN f.data = "Configure"
    ELSE /\ ~prodEnded
         /\ \/ f.data = "End"
            \/ f.data = "Video" /\ HasVideo(prodArgs)
            \/ f.data = "Audio" /\ HasAudio(prodArgs)

\* Receivers of the channel: the worker's until its thread has ended, and
\* Sink.output, which the collector holds next to Sink.input
Receivers ==
    (IF pc \notin {"joined", "panicked"} THEN 1 ELSE 0)
    + (IF senderAlive THEN 1 ELSE 0)

\* Sender::send on the unbounded channel fails only when no Receiver is left
SendResults == IF Receivers > 0 THEN {"Ok"} ELSE {"SendError"}

\* what the collector call returns to the producer: the send's result, but
\* on_audio_sample_batch unwraps it
CallReturn(f, r) ==
    IF r = "Ok" THEN "Ok" ELSE IF f.data = "Audio" THEN "Panic" ELSE "SendError"

Enqueue_Mut(f, wf) ==
    /\ senderAlive
    /\ sent < MaxFrames
    /\ receiver = <<>>
    /\ wf => WellFormed(f)
    /\ \E r \in SendResults :
         /\ receiver' = IF r = "Ok" THEN Append(receiver, f) ELSE receiver
         /\ callResult' = CallReturn(f, r)
    /\ sent' = sent + 1
    /\ prodArgs' = IF f.data = "Configure" /\ prodArgs = "None" THEN f.args ELSE prodArgs
    /\ prodEnded' = (prodEnded \/ f.data = "End")
    /\ UNCHANGED <<senderAlive, workerVars, backendVars, logger, sinkVars, copyVars,
                   ptsVars, logVars>>

\* configure / on_video_refresh / send_audio_plane_if_ready / end: one send
Enqueue(f, wf) ==
    /\ senderAlive
    /\ sent < MaxFrames
    /\ wf => WellFormed(f)
    /\ \E r \in SendResults :
         /\ receiver' = IF r = "Ok" THEN Append(receiver, f) ELSE receiver
         /\ callResult' = CallReturn(f, r)
    /\ sent' = sent + 1
    /\ prodArgs' = IF f.data = "Configure" /\ prodArgs = "None" THEN f.args ELSE prodArgs
    /\ prodEnded' = (prodEnded \/ f.data = "End")
    /\ UNCHANGED <<senderAlive, workerVars, backendVars, logger, sinkVars, copyVars, ptsVars, logVars>>

\* the collector, and with it the last Sender, is dropped
DropSender ==
    /\ senderAlive
    /\ senderAlive' = FALSE
    /\ UNCHANGED <<receiver, sent, prodArgs, prodEnded, callResult, workerVars,
                   backendVars, logger, sinkVars, copyVars, ptsVars, logVars>>

\* the logger thread returns an IoError; the log channel loses its receiver
LoggerFail ==
    /\ logger = "alive"
    /\ pc \notin {"joined", "panicked"}
    /\ logger' = "dead"
    /\ UNCHANGED <<producerVars, workerVars, backendVars, sinkVars, copyVars, ptsVars, logVars>>

(* --------------------------- worker: control --------------------------- *)

\* the iteration goes on to the stage evaluation
Continue ==
    /\ pc' = "stage"
    /\ operation_index' = 0
    /\ UNCHANGED <<loopResult, joinResult>>

\* read_collector_to_end returns Err(e)
Abort(e) ==
    /\ pc' = "exit"
    /\ loopResult' = e
    /\ UNCHANGED <<operation_index, joinResult>>

\* a panic unwinds the worker thread; join yields the panic
PanicNow ==
    /\ pc' = "panicked"
    /\ joinResult' = "Panic"
    /\ UNCHANGED <<operation_index, loopResult>>

\* the iteration is over; the next one starts with the binding check
NextIteration ==
    /\ pc' = "bind"
    /\ operation_index' = 0
    /\ operation_results' = NoResults
    /\ UNCHANGED <<loopResult, joinResult>>

(* ------------------------ worker: bind the stages ----------------------- *)

BoundSlots_Mut(ctx) == [i \in 0..3 |-> ctx # "None"]

\* the two slots of every active stream, once a context exists
BoundSlots(ctx) == [i \in 0..3 |-> Active(ctx, StreamOf(i))]

BindOperations_Mut ==
    /\ pc = "bind"
    /\ pc' = "recv"
    /\ ffmpeg_operations' = ffmpeg_operations
    /\ eofAnswer' = NoAnswers
    /\ UNCHANGED <<producerVars, ffmpeg_context, is_ending, eof_was_sent_to_encoders,
                   operation_results, operation_index, trailers, loopResult,
                   joinResult, rejected, sessionsBuilt, filt, encIn, encOut,
                   draining, dropped, written, touched, set_stream, logger,
                   sinkVars, copyVars, ptsVars, logVars>>

BindOperations ==
    /\ pc = "bind"
    /\ pc' = "recv"
    /\ ffmpeg_operations' =
         IF ffmpeg_operations = [i \in 0..3 |-> FALSE]
         THEN BoundSlots(ffmpeg_context)
         ELSE ffmpeg_operations
    /\ eofAnswer' = NoAnswers
    /\ UNCHANGED <<producerVars, ffmpeg_context, is_ending, eof_was_sent_to_encoders,
                   operation_results, operation_index, trailers, loopResult,
                   joinResult, rejected, sessionsBuilt, filt, encIn, encOut,
                   draining, dropped, written, touched, set_stream, logger,
                   sinkVars, copyVars, ptsVars, logVars>>

(* ------------------------ worker: handle_frame -------------------------- *)

\* results of FfmpegContext::new
NewContextResults(faults) == IF faults THEN {"Ok", "Err", "Panic"} ELSE {"Ok"}

\* results of filter.get("in").source().add(frame)
FilterAddResults(faults) == IF faults THEN {"Ok", "Fatal"} ELSE {"Ok"}

\* output frames the filter graph of stream s makes of one pushed plane
FilterYield(s) == IF s = "video" THEN {1} ELSE 1..MaxChunks

PushFrame(s, faults) ==
    IF ~WriteLogOk
    THEN Abort("LogSendError") /\ UNCHANGED <<filt, touched>>
    ELSE /\ touched' = [touched EXCEPT ![s] = TRUE]
         /\ \E r \in FilterAddResults(faults) :
              IF r = "Ok"
              THEN /\ \E k \in FilterYield(s) : filt' = [filt EXCEPT ![s] = @ + k]
                   /\ Continue
              ELSE Abort("FfmpegError") /\ UNCHANGED filt

RejectsConfigure_Mut(ctx) == FALSE

\* a Configure frame meets an existing context: the arm that only logs
RejectsConfigure(ctx) == ctx # "None"

EndAccepted_Mut(ctx) == TRUE

\* an End frame meets a context: the arm that sets is_ending
EndAccepted(ctx) == ctx # "None"

handle_frame(frame, faults) ==
    CASE frame.data = "Video" /\ Active(ffmpeg_context, "video") ->
           /\ PushFrame("video", faults)
           /\ UNCHANGED <<ffmpeg_context, is_ending, rejected, sessionsBuilt>>
      [] frame.data = "Audio" /\ Active(ffmpeg_context, "audio") ->
           /\ PushFrame("audio", faults)
           /\ UNCHANGED <<ffmpeg_context, is_ending, rejected, sessionsBuilt>>
      [] frame.data = "Configure" /\ ~RejectsConfigure(ffmpeg_context) ->
           /\ UNCHANGED <<filt, touched, is_ending, rejected>>
           /\ IF ~WriteLogOk
              THEN Abort("LogSendError") /\ UNCHANGED <<ffmpeg_context, sessionsBuilt>>
              ELSE \E r \in NewContextResults(faults) :
                     CASE r = "Ok" ->
                            /\ ffmpeg_context' = frame.args
                            /\ sessionsBuilt' = sessionsBuilt + 1
                            /\ Continue
                       [] r = "Err" ->
                            /\ UNCHANGED <<ffmpeg_context, sessionsBuilt>>
                            /\ Continue
                       [] OTHER ->
                            /\ UNCHANGED <<ffmpeg_context, sessionsBuilt>>
                            /\ PanicNow
      [] frame.data = "Configure" /\ RejectsConfigure(ffmpeg_context) ->
           /\ rejected' = rejected + 1
           /\ UNCHANGED <<filt, touched, ffmpeg_context, is_ending, sessionsBuilt>>
           /\ IF WriteLogOk THEN Continue ELSE Abort("LogSendError")
      [] frame.data = "End" /\ EndAccepted(ffmpeg_context) ->
           /\ UNCHANGED <<filt, touched, ffmpeg_context, rejected, sessionsBuilt>>
           /\ IF WriteLogOk
              THEN is_ending' = TRUE /\ Continue
              ELSE UNCHANGED is_ending /\ Abort("LogSendError")
      [] OTHER ->
           /\ UNCHANGED <<filt, touched, ffmpeg_context, is_ending, rejected,
                          sessionsBuilt>>
           /\ PanicNow

Disconnected_Mut == FALSE

\* try_recv on the empty queue answers Disconnected, not Empty: no Sender is left
Disconnected == ~senderAlive

\* try_recv and the dispatch of its result
Receive(faults) ==
    /\ pc = "recv"
    /\ IF receiver # <<>>
       THEN /\ receiver' = Tail(receiver)
            /\ handle_frame(Head(receiver), faults)
       ELSE /\ UNCHANGED <<receiver, filt, touched, ffmpeg_context, is_ending,
                           rejected, sessionsBuilt>>
            /\ IF Disconnected THEN Abort("ChannelRecvError") ELSE Continue
    /\ UNCHANGED <<sent, prodArgs, prodEnded, senderAlive, callResult,
                   ffmpeg_operations, eof_was_sent_to_encoders, operation_results,
                   trailers, encIn, encOut, draining, dropped, written, eofAnswer,
                   set_stream, logger, sinkVars, copyVars, ptsVars, logVars>>

(* --------------------- worker: the stage operations --------------------- *)

\* results of encoder.send_frame: the frame is kept back ("Held") or turned
\* into a packet at once ("Ready") when accepted
SendFrameResults(s, faults) ==
    IF draining[s]
    THEN {"Eof"}
    ELSE {"Held", "Ready"}
         \cup (IF encOut[s] > 0 THEN {"WouldBlock"} ELSE {})
         \cup (IF faults THEN {"Fatal"} ELSE {})

\* results of encoder.receive_packet
ReceivePacketResults(s, faults) ==
    (IF encOut[s] > 0 \/ (draining[s] /\ encIn[s] > 0)
     THEN {"Packet"}
     ELSE IF draining[s] THEN {"Eof"} ELSE {"WouldBlock"})
    \cup (IF faults THEN {"Fatal"} ELSE {})

\* results of write_interleaved for a packet carrying stream index idx
WriteInterleavedResults(idx, faults) ==
    IF idx < NbStreams(ffmpeg_context)
    THEN {"Ok"} \cup (IF faults THEN {"Fatal"} ELSE {})
    ELSE {"Fatal"}

\* does the stage return the error of its write_log call?
LogErrorReturned(i) == i \in {0, 1, 2}

\* get_filtered_video_frame_and_start_encode and its audio twin, with result r
FilterOperation(s, r, faults) ==
    /\ UNCHANGED <<written, set_stream>>
    /\ CASE ffmpeg_context = "None" ->
              r = "Panic" /\ UNCHANGED <<filt, encIn, encOut, dropped, touched>>
         [] ffmpeg_context # "None" /\ ~Active(ffmpeg_context, s) ->
              r = "Ok" /\ UNCHANGED <<filt, encIn, encOut, dropped, touched>>
         [] OTHER ->
              /\ touched' = [touched EXCEPT ![s] = TRUE]
              /\ \/ /\ filt[s] = 0
                    /\ r = "WouldBlock"
                    /\ UNCHANGED <<filt, encIn, encOut, dropped>>
                 \/ /\ faults
                    /\ r = "Fatal"
                    /\ UNCHANGED <<filt, encIn, encOut, dropped>>
                 \/ /\ filt[s] > 0
                    /\ filt' = [filt EXCEPT ![s] = @ - 1]
                    /\ IF ~WriteLogOk
                       THEN /\ r = "LogSendError"
                            /\ dropped' = [dropped EXCEPT ![s] = TRUE]
                            /\ UNCHANGED <<encIn, encOut>>
                       ELSE \E a \in SendFrameResults(s, faults) :
                              CASE a = "Held" ->
                                     /\ r = "Ok"
                                     /\ encIn' = [encIn EXCEPT ![s] = @ + 1]
                                     /\ UNCHANGED <<encOut, dropped>>
                                [] a = "Ready" ->
                                     /\ r = "Ok"
                                     /\ encOut' = [encOut EXCEPT ![s] = @ + 1]
                                     /\ UNCHANGED <<encIn, dropped>>
                                [] OTHER ->
                                     /\ r = a
                                     /\ dropped' = [dropped EXCEPT ![s] = TRUE]
                                     /\ UNCHANGED <<encIn, encOut>>

\* write_encoded_video_packet and write_encoded_audio_packet, with result r
EncodeOperation(i, s, r, faults) ==
    /\ UNCHANGED <<filt, dropped>>
    /\ CASE ffmpeg_context = "None" ->
              r = "Panic" /\ UNCHANGED <<encIn, encOut, written, touched, set_stream>>
         [] ffmpeg_context # "None" /\ ~Active(ffmpeg_context, s) ->
              r = "Ok" /\ UNCHANGED <<encIn, encOut, written, touched, set_stream>>
         [] OTHER ->
              \E p \in ReceivePacketResults(s, faults) :
                /\ touched' = [touched EXCEPT ![s] = TRUE]
                /\ IF p # "Packet"
                   THEN r = p /\ UNCHANGED <<encIn, encOut, written, set_stream>>
                   ELSE /\ set_stream' = [set_stream EXCEPT ![s] = PacketStreamIndex(s)]
                        /\ IF encOut[s] > 0
                           THEN /\ encOut' = [encOut EXCEPT ![s] = @ - 1]
                                /\ UNCHANGED encIn
                           ELSE /\ encIn' = [encIn EXCEPT ![s] = @ - 1]
                                /\ UNCHANGED encOut
                        /\ IF LogErrorReturned(i) /\ ~WriteLogOk
                           THEN r = "LogSendError" /\ UNCHANGED written
                           ELSE \E w \in WriteInterleavedResults(PacketStreamIndex(s),
                                                                 faults) :
                                  IF w = "Ok"
                                  THEN /\ r = "Ok"
                                       /\ written' = [written EXCEPT ![s] = @ + 1]
                                  ELSE r = "Fatal" /\ UNCHANGED written

Placeholder_Mut(i) == "WouldBlock"

\* the outcome recorded for a slot that has no operation
Placeholder(i) == IF i \in {0, 1} THEN "WouldBlock" ELSE "Eof"

Advance_Mut(i) ==
    /\ IF i >= 2
       THEN pc' = "check" /\ operation_index' = 0
       ELSE pc' = pc /\ operation_index' = i + 2
    /\ UNCHANGED <<loopResult, joinResult>>

\* the for loop goes to the next slot, or ends after the last one
Advance(i) ==
    /\ IF i = 3
       THEN pc' = "check" /\ operation_index' = 0
       ELSE pc' = pc /\ operation_index' = i + 1
    /\ UNCHANGED <<loopResult, joinResult>>

Retried_Mut(r) == r = "WouldBlock"

\* the errors of a stage operation the loop records instead of returning:
\* FfmpegError(Other { errno: 11 }) and FfmpegError(Eof)
Retried(r) == r \in {"WouldBlock", "Eof"}

\* one pass through the body of the stage loop
StageStep(faults) ==
    /\ pc = "stage"
    /\ LET i == operation_index IN
       IF ~ffmpeg_operations[i]
       THEN /\ operation_results' = [operation_results EXCEPT ![i] = Placeholder(i)]
            /\ Advance(i)
            /\ UNCHANGED <<filt, encIn, encOut, dropped, written, touched,
                           set_stream>>
       ELSE \E r \in {"Ok", "WouldBlock", "Eof", "Fatal", "LogSendError", "Panic"} :
              /\ IF i \in {0, 1}
                 THEN FilterOperation(StreamOf(i), r, faults)
                 ELSE EncodeOperation(i, StreamOf(i), r, faults)
              /\ CASE r = "Ok" ->
                        /\ pc' = "check"
                        /\ operation_index' = 0
                        /\ UNCHANGED <<operation_results, loopResult, joinResult>>
                   [] r # "Ok" /\ Retried(r) ->
                        /\ operation_results' = [operation_results EXCEPT ![i] = r]
                        /\ Advance(i)
                   [] r = "Fatal" \/ (r \in {"WouldBlock", "Eof"} /\ ~Retried(r)) ->
                        Abort("FfmpegError") /\ UNCHANGED operation_results
                   [] r = "LogSendError" ->
                        Abort("LogSendError") /\ UNCHANGED operation_results
                   [] OTHER ->
                        PanicNow /\ UNCHANGED operation_results
    /\ UNCHANGED <<producerVars, ffmpeg_context, is_ending, ffmpeg_operations,
                   eof_was_sent_to_encoders, trailers, rejected, sessionsBuilt,
                   draining, eofAnswer, logger, sinkVars, copyVars, ptsVars, logVars>>

(* ----------------------- worker: the flush check ------------------------ *)

\* results of encoder.send_eof
SendEofResults(s, faults) ==
    IF draining[s]
    THEN {"Eof"}
    ELSE {"Ok", "WouldBlock"} \cup (IF faults THEN {"Fatal"} ELSE {})

AllFinished_Mut(res) == res[0] = "WouldBlock" /\ res[1] = "WouldBlock"

\* both filters are out of data and both encoders are at the end
AllFinished(res) ==
    res = [i \in 0..3 |-> IF i \in {0, 1} THEN "WouldBlock" ELSE "Eof"]

\* both filters are out of data
FiltersDrained(res) == res[0] = "WouldBlock" /\ res[1] = "WouldBlock"

SignalTargets_Mut(ctx) == IF ctx = "None" THEN {} ELSE Streams

SignalTargets_Both(ctx) == Streams

\* the encoders the flush check signals
SignalTargets(ctx) == {s \in Streams : Active(ctx, s)}

\* the answers the signalled encoders can give; the audio encoder is not
\* reached when the video answer makes the worker panic
SendEofAnswers(faults) ==
    {ans \in [Streams -> {"none", "Ok", "WouldBlock", "Eof", "Fatal"}] :
       /\ \A s \in Streams :
            IF s \in SignalTargets(ffmpeg_context)
            THEN ans[s] \in SendEofResults(s, faults) \cup {"none"}
            ELSE ans[s] = "none"
       /\ "video" \in SignalTargets(ffmpeg_context) => ans["video"] # "none"
       /\ "audio" \in SignalTargets(ffmpeg_context) =>
            (ans["audio"] = "none" <=> ans["video"] = "Fatal")}

\* the match on operation_results under `is_ending && receiver.is_empty()`
FlushCheck(faults) ==
    /\ pc = "check"
    /\ IF ~(is_ending /\ receiver = <<>>)
       THEN /\ NextIteration
            /\ UNCHANGED <<eof_was_sent_to_encoders, draining, eofAnswer, touched>>
       ELSE CASE AllFinished(operation_results) ->
                   /\ IF ffmpeg_context # "None"
                      THEN pc' = "trailer" /\ UNCHANGED loopResult
                      ELSE pc' = "exit" /\ loopResult' = "Ok"
                   /\ UNCHANGED <<operation_index, operation_results, joinResult,
                                  eof_was_sent_to_encoders, draining, eofAnswer,
                                  touched>>
              [] ~AllFinished(operation_results)
                   /\ FiltersDrained(operation_results) ->
                   IF eof_was_sent_to_encoders
                   THEN /\ NextIteration
                        /\ UNCHANGED <<eof_was_sent_to_encoders, draining, eofAnswer,
                                       touched>>
                   ELSE \E ans \in SendEofAnswers(faults) :
                          /\ eofAnswer' = ans
                          /\ touched' =
                               [s \in Streams |-> touched[s] \/ ans[s] # "none"]
                          /\ draining' =
                               [s \in Streams |-> draining[s] \/ ans[s] = "Ok"]
                          /\ IF \E s \in Streams : ans[s] = "Fatal"
                             THEN /\ PanicNow
                                  /\ UNCHANGED <<operation_results,
                                                 eof_was_sent_to_encoders>>
                             ELSE /\ NextIteration
                                  /\ eof_was_sent_to_encoders' =
                                       (\A s \in Streams : ans[s] # "WouldBlock")
              [] OTHER ->
                   /\ NextIteration
                   /\ UNCHANGED <<eof_was_sent_to_encoders, draining, eofAnswer,
                                  touched>>
    /\ UNCHANGED <<producerVars, ffmpeg_context, is_ending, ffmpeg_operations,
                   trailers, rejected, sessionsBuilt, filt, encIn, encOut,
                   dropped, written, set_stream, logger, sinkVars, copyVars,
                   ptsVars, logVars>>

\* results of octx.write_trailer
WriteTrailerResults(faults) == {"Ok"} \cup (IF faults THEN {"Fatal"} ELSE {})

\* write_trailer, then break, or the error returned by `?`
WriteTrailer(faults) ==
    /\ pc = "trailer"
    /\ pc' = "exit"
    /\ \E r \in WriteTrailerResults(faults) :
         IF r = "Ok"
         THEN trailers' = trailers + 1 /\ loopResult' = "Ok"
         ELSE UNCHANGED trailers /\ loopResult' = "FfmpegError"
    /\ UNCHANGED <<producerVars, ffmpeg_context, is_ending, ffmpeg_operations,
                   eof_was_sent_to_encoders, operation_results, operation_index,
                   joinResult, rejected, sessionsBuilt, backendVars, logger,
                   sinkVars, copyVars, ptsVars, logVars>>

(* ------------------- worker thread: after the loop ---------------------- *)

\* results of joining the logger thread after the sentinel was sent
LoggerJoinResults(faults) == {"Ok"} \cup (IF faults THEN {"LogError"} ELSE {})

\* the closure of start_thread after read_collector_to_end has returned
Finish(faults) ==
    /\ pc = "exit"
    /\ pc' = "joined"
    /\ CASE logger = "none" ->
              joinResult' = "Ok" /\ UNCHANGED logger
         [] logger = "dead" ->
              joinResult' = "LogSendError" /\ UNCHANGED logger
         [] OTHER ->
              \E r \in LoggerJoinResults(faults) :
                /\ joinResult' = r
                /\ logger' = IF r = "Ok" THEN "closed" ELSE "dead"
    /\ UNCHANGED <<producerVars, ffmpeg_context, is_ending, ffmpeg_operations,
                   eof_was_sent_to_encoders, operation_results, operation_index,
                   trailers, loopResult, rejected, sessionsBuilt, backendVars,
                   sinkVars, copyVars, ptsVars, logVars>>

(* --------------------------- specification ------------------------------ *)

Next ==
    \/ \E f \in FrameData : Enqueue(f, FALSE)
    \/ DropSender
    \/ LoggerFail
    \/ BindOperations
    \/ Receive(TRUE)
    \/ StageStep(TRUE)
    \/ FlushCheck(TRUE)
    \/ WriteTrailer(TRUE)
    \/ Finish(TRUE)

Spec == Init /\ [][Next]_vars

TypeOK ==
    /\ pc \in {"bind", "recv", "stage", "check", "trailer", "exit", "join",
               "joined", "panicked"}
    /\ ffmpeg_context \in OutputArgs \cup {"None"}
    /\ operation_index \in 0..3
    /\ \A i \in 0..3 : operation_results[i] \in {"None", "WouldBlock", "Eof"}
    /\ \A s \in Streams : filt[s] >= 0 /\ encIn[s] >= 0 /\ encOut[s] >= 0

(* ------------- well-formed runs on a backend without faults ------------- *)

\* the worker thread's own steps
WorkerStepWF ==
    \/ BindOperations
    \/ Receive(FALSE)
    \/ StageStep(FALSE)
    \/ FlushCheck(FALSE)
    \/ WriteTrailer(FALSE)
    \/ Finish(FALSE)

\* a flush check in which no signalled encoder answers WouldBlock
EofAccepted == FlushCheck(FALSE) /\ eof_was_sent_to_encoders'

NextWF ==
    \/ \E f \in FrameData : Enqueue(f, TRUE)
    \/ WorkerStepWF

\* the producer sends Configure, matching frames, End, and keeps its Sender;
\* no library call fails for a reason of its own and the logger stays up; the
\* worker thread keeps running and a retried send_eof is answered in the end
SpecWF ==
    /\ Init
    /\ [][NextWF]_vars
    /\ WF_vars(WorkerStepWF)
    /\ SF_vars(EofAccepted)

(* ------------------------------- claims --------------------------------- *)

\* the drive loop has returned
LoopReturned == pc \in {"exit", "joined"}

\* C1: in a well-formed run (Configure, N matching frames, End) the drive
\* loop terminates and has performed write_trailer exactly once: whenever
\* the loop of such a run has returned, it has returned Ok with exactly one
\* trailer written.
C1_WellFormedRunWritesOneTrailer ==
    LoopReturned => (loopResult = "Ok" /\ trailers = 1)

\* the streams of the Session
ActiveStreams == {s \in Streams : Active(ffmpeg_context, s)}

\* C2: when the trailer is written the input queue is empty, every frame
\* pushed into an active stream's filter graph has been pulled and accepted
\* by the encoder, and every packet of an active encoder has been written.
C2_NoDataLossAtTrailer ==
    [][trailers' > trailers =>
         /\ receiver = <<>>
         /\ \A s \in ActiveStreams :
              /\ filt[s] = 0
              /\ ~dropped[s]
              /\ encIn[s] = 0
              /\ encOut[s] = 0]_vars

\* C3: the trailer is written only after a flush check that saw End observed,
\* an empty queue and the outcomes (WouldBlock, WouldBlock, Eof, Eof) of that
\* iteration; the loop exits right after it, and it is written once.
C3_TrailerOnlyWhenAllFinished ==
    [][/\ (pc # "trailer" /\ pc' = "trailer") =>
            /\ pc = "check"
            /\ is_ending
            /\ receiver = <<>>
            /\ operation_results[0] = "WouldBlock"
            /\ operation_results[1] = "WouldBlock"
            /\ operation_results[2] = "Eof"
            /\ operation_results[3] = "Eof"
       /\ (trailers' # trailers) =>
            /\ pc = "trailer"
            /\ pc' = "exit"
            /\ trailers = 0
            /\ trailers' = 1
            /\ is_ending
            /\ operation_results[0] = "WouldBlock"
            /\ operation_results[1] = "WouldBlock"
            /\ operation_results[2] = "Eof"
            /\ operation_results[3] = "Eof"]_vars

\* a trailer has been written and the loop has left
C3_Witness == trailers = 1 /\ pc = "exit" /\ written["video"] > 0

\* the flush check of this step signals end-of-stream to the encoder of s
Signals(s) == pc = "check" /\ eofAnswer'[s] # "none"

\* C4: end-of-stream is signalled to an encoder only in an iteration in which
\* End has been observed, the queue is empty and both filter-pull outcomes are
\* WouldBlock, and never while that encoder's filter graph holds a frame.
C4_EofOnlyAfterFiltersDrained ==
    [][\A s \in Streams :
         Signals(s) =>
           /\ is_ending
           /\ receiver = <<>>
           /\ operation_results[0] = "WouldBlock"
           /\ operation_results[1] = "WouldBlock"
           /\ filt[s] = 0]_vars

\* C5: an active encoder accepts end-of-stream once; the signal is sent again
\* while an active encoder answered WouldBlock, an encoder answering Eof
\* counts as done, inactive encoders are not signalled, and nothing is
\* signalled once success has been recorded.
C5_EofAcceptedOncePerEncoder ==
    [][/\ (\E s \in Streams : Signals(s)) =>
            /\ ~eof_was_sent_to_encoders
            /\ \A s \in Streams :
                 /\ Signals(s) => Active(ffmpeg_context, s)
                 /\ eofAnswer'[s] = "Ok" => (~draining[s] /\ draining'[s])
                 /\ eofAnswer'[s] = "Eof" => draining[s]
            /\ pc' # "panicked" =>
                 (eof_was_sent_to_encoders' <=>
                    \A s \in ActiveStreams : eofAnswer'[s] \in {"Ok", "Eof"})
       /\ eof_was_sent_to_encoders => eof_was_sent_to_encoders'
       /\ (eof_was_sent_to_encoders' \/ pc' = "trailer") =>
            \A s \in ActiveStreams : draining'[s]
       /\ \A s \in Streams : draining'[s] => Active(ffmpeg_context, s)]_vars

\* the video encoder had accepted earlier, the audio encoder accepts on a retry
C5_Witness ==
    /\ eof_was_sent_to_encoders
    /\ eofAnswer["video"] = "Eof"
    /\ eofAnswer["audio"] = "Ok"

\* a media frame for a stream the Session lacks, or met without a Session
Mismatched(f) ==
    \/ f.data = "Video" /\ ~Active(ffmpeg_context, "video")
    \/ f.data = "Audio" /\ ~Active(ffmpeg_context, "audio")

\* C6: a Video frame dequeued by an audio-only or absent Session (and an
\* Audio frame by a video-only or absent one) is rejected without abort or
\* panic, and the worker goes on with its iteration.
C6_MismatchedFrameRejected ==
    [][(pc = "recv" /\ pc' # "recv" /\ receiver # <<>>
          /\ Mismatched(Head(receiver))) =>
         (pc' = "stage" /\ joinResult' # "Panic")]_vars

\* C7: a Configure frame dequeued while a Session exists changes neither the
\* Session, the stage bindings nor the ending flag, prints a rejection, and
\* builds nothing; a Session is built at most once in a run.
C7_SecondConfigureRejected ==
    [][/\ (pc = "recv" /\ pc' # "recv" /\ receiver # <<>>
             /\ Head(receiver).data = "Configure" /\ ffmpeg_context # "None") =>
            /\ ffmpeg_context' = ffmpeg_context
            /\ ffmpeg_operations' = ffmpeg_operations
            /\ is_ending' = is_ending
            /\ rejected' = rejected + 1
            /\ sessionsBuilt' = sessionsBuilt
       /\ sessionsBuilt' <= 1]_vars

\* a Configure frame was rejected by a Session that is already draining
C7_Witness == rejected >= 1 /\ sessionsBuilt = 1 /\ is_ending /\ pc = "stage"

\* C8: when the drive loop has aborted with an error, that error is what
\* joining the worker thread yields.
C8_LoopErrorReachesJoiner ==
    (pc = "joined" /\ loopResult \notin {"running", "Ok"}) =>
      joinResult = loopResult

(* ------------------------ the collector (sink.rs) ----------------------- *)

Min(a, b) == IF a < b THEN a ELSE b

\* Iterator::step_by(2): the elements at offsets 0, 2, 4, ...
StepBy2(seq) == [k \in 1..((Len(seq) + 1) \div 2) |-> seq[2 * k - 1]]

Skip1_Mut(seq) == seq

\* Iterator::skip(1)
Skip1(seq) == IF seq = <<>> THEN <<>> ELSE Tail(seq)

\* Iterator::zip: pairs up to the end of the shorter side
Zip(a, b) == [k \in 1..Min(Len(a), Len(b)) |-> <<a[k], b[k]>>]

SampleValues == 1..MaxSample

\* the batches handed in: n samples, all different, from b upwards
PcmBatches ==
    {[k \in 1..n |-> b + k - 1] : n \in 0..MaxPcm, b \in SampleValues}

on_audio_sample(left, right, frame_number) ==
    /\ ncalls < MaxCalls
    /\ ncalls' = ncalls + 1
    /\ lastCall' = [op |-> "on_audio_sample", pcm |-> <<left, right>>,
                    seq |-> frame_number]
    /\ audio_buf' = Append(audio_buf, <<left, right>>)
    /\ UNCHANGED <<sinkq, producerVars, workerVars, backendVars, logger, copyVars, ptsVars, logVars>>

\* send_audio_plane_if_ready: the whole buffer becomes one plane
send_audio_plane_if_ready(buf, frame_number) ==
    /\ sinkq' = Append(sinkq, [data |-> "Audio", plane |-> buf,
                               frame_number |-> frame_number])
    /\ audio_buf' = <<>>

on_audio_sample_batch(stereo_pcm, frame_number) ==
    /\ ncalls < MaxCalls
    /\ ncalls' = ncalls + 1
    /\ lastCall' = [op |-> "on_audio_sample_batch", pcm |-> stereo_pcm,
                    seq |-> frame_number]
    /\ LET left_iter == StepBy2(stereo_pcm)
           right_iter == StepBy2(Skip1(stereo_pcm))
       IN  send_audio_plane_if_ready(audio_buf \o Zip(left_iter, right_iter),
                                     frame_number)
    /\ UNCHANGED <<producerVars, workerVars, backendVars, logger, copyVars, ptsVars, logVars>>

SinkNext ==
    \/ \E l \in SampleValues, r \in SampleValues, n \in 0..MaxSeq :
         on_audio_sample(l, r, n)
    \/ \E pcm \in PcmBatches, n \in 0..MaxSeq : on_audio_sample_batch(pcm, n)

\* the collector alone, its queue open, the worker not started
CollectorInit ==
    /\ WorkerInit /\ logger = "none" /\ SinkInit /\ CopyIdle /\ NothingStamped
    /\ LogIdle

SpecSink == CollectorInit /\ [][SinkNext]_vars

\* C9: on_audio_sample_batch enqueues exactly one Audio frame, tagged with the
\* given frame number, whose plane is the accumulated pairs followed by
\* (L0,R0),(L1,R1),... of the batch, and empties the accumulator;
\* on_audio_sample enqueues nothing.
C9_BatchFlushesDeinterleaved ==
    [][/\ (ncalls' # ncalls /\ lastCall'.op = "on_audio_sample_batch") =>
            LET pcm == lastCall'.pcm
                n == Len(pcm) \div 2
                old == Len(audio_buf)
                f == sinkq'[Len(sinkq')]
            IN  /\ Len(sinkq') = Len(sinkq) + 1
                /\ \A k \in 1..Len(sinkq) : sinkq'[k] = sinkq[k]
                /\ f.data = "Audio"
                /\ f.frame_number = lastCall'.seq
                /\ Len(f.plane) = old + n
                /\ \A k \in 1..old : f.plane[k] = audio_buf[k]
                /\ \A k \in 1..n :
                     f.plane[old + k] = <<pcm[2 * k - 1], pcm[2 * k]>>
                /\ audio_buf' = <<>>
       /\ (ncalls' # ncalls /\ lastCall'.op = "on_audio_sample") =>
            /\ sinkq' = sinkq
            /\ audio_buf' = Append(audio_buf, lastCall'.pcm)]_vars

\* a batch of two pairs was flushed behind an accumulated pair
C9_Witness ==
    /\ lastCall.op = "on_audio_sample_batch"
    /\ lastCall.pcm = <<1, 2, 3, 4>>
    /\ audio_buf = <<>>
    /\ sinkq # <<>>
    /\ sinkq[Len(sinkq)].plane = <<<<2, 1>>, <<1, 2>>, <<3, 4>>>>

(* ----------------- frame_from_video_plane (encoder.rs) ------------------ *)

\* the planes handed in, one byte per pixel; data may have any length
VideoPlanes ==
    [len : 0..MaxLen, width : 1..MaxDim, height : 1..MaxDim, pitch : 0..MaxPitch]

\* vframe.data_mut(0).len(): stride times the plane's height
PlaneLen == stride * vplane.height

\* a..b is a valid range of a slice of length n
RangeOk(a, b, n) == a <= b /\ b <= n

\* ffmpeg::frame::Video::new: the line size is at least the row's bytes
CopyInput ==
    /\ WorkerInit /\ logger = "none" /\ SinkInit /\ NothingStamped /\ LogIdle
    /\ vplane \in VideoPlanes
    /\ stride \in vplane.width..MaxPitch
    /\ vframe_plane = [i \in 0..(stride * vplane.height - 1) |-> -1]
    /\ y = 0
    /\ copyState = "input"

\* the whole-buffer copy, or the entry into the row loop
CopyWhole ==
    /\ copyState = "input"
    /\ IF vplane.len = PlaneLen /\ vplane.pitch = stride
       THEN /\ vframe_plane' = [i \in DOMAIN vframe_plane |-> i]
            /\ copyState' = "done"
       ELSE /\ UNCHANGED vframe_plane
            /\ copyState' = "rows"
    /\ UNCHANGED <<vplane, stride, y, producerVars, workerVars, backendVars,
                   logger, sinkVars, ptsVars, logVars>>

\* one pass of `for y in 0..height`; a bad slice range panics
CopyRow ==
    /\ copyState = "rows"
    /\ y < vplane.height
    /\ LET ffbegin == y * stride
           lrbegin == y * vplane.pitch
           min == Min(stride, vplane.pitch)
       IN  IF RangeOk(ffbegin, ffbegin + min, PlaneLen)
              /\ RangeOk(lrbegin, lrbegin + min, vplane.len)
           THEN /\ vframe_plane' =
                     [i \in DOMAIN vframe_plane |->
                        IF ffbegin <= i /\ i < ffbegin + min
                        THEN lrbegin + (i - ffbegin)
                        ELSE vframe_plane[i]]
                /\ y' = y + 1
                /\ UNCHANGED copyState
           ELSE /\ copyState' = "panic"
                /\ UNCHANGED <<vframe_plane, y>>
    /\ UNCHANGED <<vplane, stride, producerVars, workerVars, backendVars, logger,
                   sinkVars, ptsVars, logVars>>

\* the loop is over and the frame is returned
CopyReturn ==
    /\ copyState = "rows"
    /\ y = vplane.height
    /\ copyState' = "done"
    /\ UNCHANGED <<vplane, stride, vframe_plane, y, producerVars, workerVars,
                   backendVars, logger, sinkVars, ptsVars, logVars>>

CopyNext == CopyWhole \/ CopyRow \/ CopyReturn

SpecCopy == CopyInput /\ [][CopyNext]_vars

\* C10: for a plane whose pitch differs from the stride, every row y of
\* 0..height is copied with min(pitch, stride) bytes from y*pitch to y*stride,
\* and neither the source range nor the destination range of a row leaves its
\* buffer.
C10_RowCopyInBounds ==
    (copyState = "rows" /\ vplane.pitch # stride /\ y < vplane.height) =>
      LET min == Min(stride, vplane.pitch)
      IN  /\ y * vplane.pitch + min <= vplane.len
          /\ y * stride + min <= PlaneLen
          /\ \A r \in 0..(y - 1), k \in 0..(min - 1) :
               vframe_plane[r * stride + k] = r * vplane.pitch + k

(* --------------------- presentation time (encoder.rs) ------------------- *)

\* the values of Frame.frame_number
U64 == 0..(2^PtsBits - 1)

\* `frame_number as i64`: the same bits read as two's complement
AsI64(n) == IF n >= 2^(PtsBits - 1) THEN n - 2^PtsBits ELSE n

\* handle_frame: set_pts(Some(frame_number as i64)) on a frame of stream s
StampPts(s, frame_number) ==
    /\ stampSeq' = [stampSeq EXCEPT ![s] = frame_number]
    /\ stampPts' = [stampPts EXCEPT ![s] = AsI64(frame_number)]
    /\ UNCHANGED <<producerVars, workerVars, backendVars, logger, sinkVars,
                   copyVars, logVars>>

PtsNext == \E s \in Streams, n \in U64 : StampPts(s, n)

\* a worker that has stamped nothing yet
PtsInit ==
    /\ WorkerInit /\ logger = "none" /\ SinkInit /\ CopyIdle /\ NothingStamped
    /\ LogIdle

SpecPts == PtsInit /\ [][PtsNext]_vars

\* C11: the pts stamped on a Video or Audio frame equals the frame's sequence
\* number, so within a stream the stamped pts does not decrease when the
\* dequeued sequence numbers do not decrease, for every sequence number of
\* the unsigned domain.
C11_PtsEqualsSequenceNumber ==
    [][\A s \in Streams :
         stampSeq'[s] # stampSeq[s] =>
           /\ stampPts'[s] = stampSeq'[s]
           /\ (stampSeq[s] >= 0 /\ stampSeq[s] <= stampSeq'[s]) =>
                stampPts[s] <= stampPts'[s]]_vars

(* ---------------------- claims on the drive loop ------------------------ *)

\* the worker thread has ended and dropped its Receiver
WorkerEnded == pc \in {"joined", "panicked"}

\* C12: a collector call that enqueues (configure, on_video_refresh,
\* on_audio_sample_batch, end) made after the worker has terminated returns
\* the queue-closed error to its caller; it neither succeeds nor panics.
C12_EnqueueAfterTerminationFails ==
    [][(sent' # sent /\ WorkerEnded) => callResult' = "SendError"]_vars

\* the worker is inside the loop of read_collector_to_end
InPollLoop == pc \in {"bind", "recv", "stage", "check"}

\* C13: the trailer is written only after an End frame was dequeued by a
\* worker that has a Session, and as long as the producer has not enqueued End
\* and keeps its Sender the worker stays in its poll loop and no trailer is
\* written.
C13_TerminatesOnlyThroughEnd ==
    /\ trailers > 0 => is_ending
    /\ (~prodEnded /\ senderAlive) => (InPollLoop /\ trailers = 0)

\* C14: in a Video-only session no filter or encoder call is made on the
\* audio stream, in an Audio-only session none on the video stream, and
\* without a Session none at all.
C14_InactiveStreamUntouched ==
    /\ ffmpeg_context = "Video" => ~touched["audio"]
    /\ ffmpeg_context = "Audio" => ~touched["video"]
    /\ ffmpeg_context = "None" => (~touched["video"] /\ ~touched["audio"])

\* a Video-only session ran up to its trailer
C14_Witness ==
    /\ ffmpeg_context = "Video"
    /\ touched["video"]
    /\ eof_was_sent_to_encoders
    /\ trailers = 1

\* C15: the two slots of a stream are bound together or not at all; an
\* iteration that starts with a Session leaves its binding check with exactly
\* the slots of the Session's streams bound; and once a slot is bound the
\* table never changes.
C15_StageTableInvariant ==
    [][/\ ffmpeg_operations'[0] = ffmpeg_operations'[2]
       /\ ffmpeg_operations'[1] = ffmpeg_operations'[3]
       /\ (pc = "bind" /\ pc' = "recv" /\ ffmpeg_context # "None") =>
            \A i \in 0..3 :
              ffmpeg_operations'[i] <=> Active(ffmpeg_context, StreamOf(i))
       /\ (\E i \in 0..3 : ffmpeg_operations[i]) =>
            ffmpeg_operations' = ffmpeg_operations]_vars

\* a Video-only session with its two slots bound, late in the run
C15_Witness ==
    /\ ffmpeg_context = "Video"
    /\ ffmpeg_operations = [i \in 0..3 |-> i \in {0, 2}]
    /\ is_ending
    /\ pc = "stage"

\* C16: the slots are evaluated in the order 0, 1, 2, 3; when a slot is
\* evaluated every earlier slot of the iteration has WouldBlock or Eof
\* recorded and no later slot has anything recorded; the evaluation goes on to
\* the next slot only after recording WouldBlock or Eof, so nothing is invoked
\* after a success.
C16_StagesInOrderUntilSuccess ==
    [][pc = "stage" =>
         /\ \A j \in 0..3 :
              IF j < operation_index
              THEN operation_results[j] \in {"WouldBlock", "Eof"}
              ELSE operation_results[j] = "None"
         /\ operation_index' # operation_index =>
              IF pc' = "stage"
              THEN /\ operation_index' = operation_index + 1
                   /\ operation_results'[operation_index] \in {"WouldBlock", "Eof"}
              ELSE pc' = "check"
         /\ (pc' = "stage" /\ operation_index' = operation_index) =>
              operation_results' = operation_results
         /\ (pc' = "check" /\ operation_results' = operation_results) =>
              ffmpeg_operations[operation_index]]_vars

\* the audio encode-write stage is reached after the three stages before it
\* recorded WouldBlock, WouldBlock and Eof
C16_Witness ==
    /\ pc = "stage"
    /\ operation_index = 3
    /\ ffmpeg_operations[3]
    /\ operation_results[0] = "WouldBlock"
    /\ operation_results[1] = "WouldBlock"
    /\ operation_results[2] = "Eof"
    /\ encIn["audio"] > 0

\* the stage evaluation of the iteration is over
StagesEvaluated == pc = "check"

\* C17: at the end of the stage evaluation each of the four slots has a
\* recorded outcome; an unbound filter-pull slot has WouldBlock and an unbound
\* encode-write slot has Eof.
C17_EverySlotRecorded ==
    StagesEvaluated =>
      \A i \in 0..3 :
        /\ operation_results[i] # "None"
        /\ ~ffmpeg_operations[i] =>
             operation_results[i] = (IF i \in {0, 1} THEN "WouldBlock" ELSE "Eof")

\* C17 as amended: at the end of the stage evaluation the slots before the
\* first stage that succeeded (all four when none did) have a recorded
\* outcome, WouldBlock for an unbound filter-pull slot and Eof for an unbound
\* encode-write slot; the stage that succeeded is bound, and it and the slots
\* after it have nothing recorded.
C17_SlotsBeforeSuccessRecorded ==
    StagesEvaluated =>
      \E k \in 0..4 :
        /\ \A i \in 0..3 :
             IF i < k
             THEN /\ operation_results[i] \in {"WouldBlock", "Eof"}
                  /\ ~ffmpeg_operations[i] =>
                       operation_results[i] =
                         (IF i \in {0, 1} THEN "WouldBlock" ELSE "Eof")
             ELSE operation_results[i] = "None"
        /\ k < 4 => ffmpeg_operations[k]

\* the video filter stage succeeded, so the unbound audio slots were skipped
C17_Witness ==
    /\ StagesEvaluated
    /\ ffmpeg_context = "Video"
    /\ operation_results[0] = "None"
    /\ ~ffmpeg_operations[3]
    /\ operation_results[3] = "None"

\* C18: a frame pulled from a stream's filter graph is handed to and kept by
\* that stream's encoder in the same step and the stage reports success; a
\* filter-pull stage records WouldBlock or Eof only when nothing was pulled.
C18_PulledFrameReachesEncoder ==
    [][\A s \in Streams :
         filt'[s] < filt[s] =>
           /\ encIn'[s] + encOut'[s] = encIn[s] + encOut[s] + 1
           /\ ~dropped'[s]
           /\ pc' = "check"
           /\ operation_results' = operation_results]_vars

\* C19: in every session the index put on a packet is the index of the
\* container stream created for the packet's kind, and is smaller than the
\* number of streams of the container.
C19_PacketTaggedWithItsStream ==
    \A s \in Streams :
      set_stream[s] # -1 =>
        /\ set_stream[s] = ContainerIndex(ffmpeg_context, s)
        /\ set_stream[s] < NbStreams(ffmpeg_context)

\* C20: when FfmpegContext::new fails on a Configure frame the loop does not
\* return and the thread does not panic: the worker has no Session, no slot
\* bound and no Session counted, and goes on with its iteration.
C20_FailedConfigureStaysUninitialized ==
    [][(pc = "recv" /\ pc' # "recv" /\ receiver # <<>>
          /\ Head(receiver).data = "Configure" /\ ffmpeg_context = "None"
          /\ WriteLogOk /\ ffmpeg_context' = "None") =>
         /\ pc' = "stage"
         /\ loopResult' = "running"
         /\ joinResult' # "Panic"
         /\ sessionsBuilt' = sessionsBuilt
         /\ \A i \in 0..3 : ~ffmpeg_operations'[i]]_vars

StageInvoked ==
    /\ pc = "stage"
    /\ ffmpeg_operations[operation_index]
    /\ (pc' # pc \/ operation_index' # operation_index)

\* on a backend without faults: the operation of the slot evaluated in this
\* step comes back with WouldBlock or Eof (nothing to pull, no packet to
\* retrieve, or a pulled frame the encoder refused)
StageAnswersRetry ==
    LET i == operation_index
        s == StreamOf(i)
    IN  /\ StageInvoked
        /\ IF i \in {0, 1}
           THEN \/ filt[s] = 0
                \/ /\ filt'[s] < filt[s]
                   /\ encIn'[s] + encOut'[s] = encIn[s] + encOut[s]
           ELSE encOut[s] = 0 /\ ~(draining[s] /\ encIn[s] > 0)

\* C22: a stage operation that comes back with WouldBlock or Eof has that
\* outcome recorded and the loop goes on (to the next slot or to the flush
\* check): the loop does not return, the thread does not panic, and the slot
\* stays bound for the iterations to come.
C22_RetryNeverEndsLoop ==
    [][StageAnswersRetry =>
         /\ operation_results'[operation_index] \in {"WouldBlock", "Eof"}
         /\ pc' \in {"stage", "check"}
         /\ loopResult' = "running"
         /\ joinResult' = "none"
         /\ ffmpeg_operations' = ffmpeg_operations]_vars

\* the flushed video encoder answers Eof again and again while the audio
\* encoder, which answered WouldBlock to send_eof, is still running
C22_Witness ==
    /\ pc = "check"
    /\ loopResult = "running"
    /\ ffmpeg_context = "AudioVideo"
    /\ draining["video"]
    /\ ~draining["audio"]
    /\ operation_results[0] = "WouldBlock"
    /\ operation_results[2] = "Eof"

(* ------------- the logger thread and the log channel -------------------- *)
(* The worker thread of start_thread with a logger configured, seen from   *)
(* the log channel: of the drive loop only its write_log calls, its return *)
(* and its panics are kept.                                                 *)

\* the logger thread holds the channel's only Receiver while it runs
LogReceiverAlive == logger = "alive"

\* write_log called from the drive loop; `checked` tells whether the call
\* site returns the send error with `?`
write_log(checked) ==
    /\ InPollLoop
    /\ logCalls < MaxEvents
    /\ logCalls' = logCalls + 1
    /\ IF LogReceiverAlive
       THEN /\ logq' = Append(logq, "Event")
            /\ logged' = logged + 1
            /\ UNCHANGED <<pc, loopResult>>
       ELSE /\ UNCHANGED <<logq, logged>>
            /\ IF checked
               THEN pc' = "exit" /\ loopResult' = "LogSendError"
               ELSE UNCHANGED <<pc, loopResult>>
    /\ UNCHANGED <<producerVars, ffmpeg_context, is_ending, ffmpeg_operations,
                   eof_was_sent_to_encoders, operation_results, operation_index,
                   trailers, joinResult, rejected, sessionsBuilt, backendVars,
                   logger, sinkVars, copyVars, ptsVars, rows, tableClosed,
                   sentinels>>

\* read_collector_to_end returns r
LoopReturns(r) ==
    /\ InPollLoop
    /\ pc' = "exit"
    /\ loopResult' = r
    /\ UNCHANGED <<producerVars, ffmpeg_context, is_ending, ffmpeg_operations,
                   eof_was_sent_to_encoders, operation_results, operation_index,
                   trailers, joinResult, rejected, sessionsBuilt, backendVars,
                   logger, sinkVars, copyVars, ptsVars, logVars>>

\* a panic inside read_collector_to_end unwinds the closure of start_thread:
\* its Senders of the log channel are dropped, nothing after the loop runs
LoopPanics ==
    /\ InPollLoop
    /\ PanicNow
    /\ UNCHANGED <<producerVars, ffmpeg_context, is_ending, ffmpeg_operations,
                   eof_was_sent_to_encoders, operation_results, trailers,
                   rejected, sessionsBuilt, backendVars, logger, sinkVars,
                   copyVars, ptsVars, logVars>>

\* channel.send(LogMessage::Eof)?: the send, or the closure's early return
SendSentinel ==
    /\ pc = "exit"
    /\ sentinels' = sentinels + 1
    /\ IF LogReceiverAlive
       THEN /\ logq' = Append(logq, "Eof")
            /\ pc' = "join"
            /\ UNCHANGED joinResult
       ELSE /\ UNCHANGED logq
            /\ pc' = "joined"
            /\ joinResult' = "LogSendError"
    /\ UNCHANGED <<producerVars, ffmpeg_context, is_ending, ffmpeg_operations,
                   eof_was_sent_to_encoders, operation_results, operation_index,
                   trailers, loopResult, rejected, sessionsBuilt, backendVars,
                   logger, sinkVars, copyVars, ptsVars, logged, logCalls, rows,
                   tableClosed>>

\* joinhandle.join().unwrap()?: waits for the logger thread's result
JoinLogger ==
    /\ pc = "join"
    /\ logger \in {"closed", "dead"}
    /\ pc' = "joined"
    /\ joinResult' = IF logger = "closed" THEN "Ok" ELSE "LogError"
    /\ UNCHANGED <<producerVars, ffmpeg_context, is_ending, ffmpeg_operations,
                   eof_was_sent_to_encoders, operation_results, operation_index,
                   trailers, loopResult, rejected, sessionsBuilt, backendVars,
                   logger, sinkVars, copyVars, ptsVars, logVars>>

\* the logger thread receives an Event and writes its row
LoggerWritesRow ==
    /\ logger = "alive"
    /\ logq # <<>>
    /\ Head(logq) = "Event"
    /\ logq' = Tail(logq)
    /\ rows' = rows + 1
    /\ UNCHANGED <<producerVars, workerVars, backendVars, logger, sinkVars,
                   copyVars, ptsVars, logged, logCalls, tableClosed, sentinels>>

\* the logger thread receives Eof, writes the closing markup and returns Ok
LoggerCloses ==
    /\ logger = "alive"
    /\ logq # <<>>
    /\ Head(logq) = "Eof"
    /\ logq' = Tail(logq)
    /\ tableClosed' = TRUE
    /\ logger' = "closed"
    /\ UNCHANGED <<producerVars, workerVars, backendVars, sinkVars, copyVars,
                   ptsVars, logged, logCalls, rows, sentinels>>

\* messages.recv() on the empty channel after every Sender is gone: the
\* logger thread returns ChannelRecvError
LoggerDisconnected ==
    /\ logger = "alive"
    /\ logq = <<>>
    /\ pc = "panicked"
    /\ logger' = "dead"
    /\ UNCHANGED <<producerVars, workerVars, backendVars, sinkVars, copyVars,
                   ptsVars, logVars>>

LogNext ==
    \/ \E checked \in BOOLEAN : write_log(checked)
    \/ \E r \in {"Ok", "FfmpegError", "ChannelRecvError"} : LoopReturns(r)
    \/ LoopPanics
    \/ SendSentinel
    \/ JoinLogger
    \/ LoggerWritesRow
    \/ LoggerCloses
    \/ LoggerDisconnected
    \/ LoggerFail

\* start_thread was given a log path
LogInit ==
    /\ WorkerInit /\ logger = "alive" /\ SinkInit /\ CopyIdle /\ NothingStamped
    /\ LogIdle

SpecLog == LogInit /\ [][LogNext]_vars

\* the worker thread has finished, by returning or by unwinding
ThreadFinished == pc \in {"joined", "panicked"}

\* C23: with a logger configured the worker thread sends the sentinel once,
\* and only after the drive loop has returned; the closing markup is written
\* only on the sentinel, after a row for every event logged, and ends the
\* logger thread; and the worker thread does not finish before the logger
\* thread has.
C23_SentinelOnceAfterLoop ==
    /\ sentinels <= 1
    /\ sentinels > 0 => pc \in {"join", "joined"}
    /\ tableClosed => (sentinels = 1 /\ rows = logged /\ logger = "closed")
    /\ ThreadFinished => (sentinels = 1 /\ logger \in {"closed", "dead"})

\* handle_frame takes a frame through one of its arms that call write_log
FrameLogs ==
    /\ pc = "recv"
    /\ pc' # "recv"
    /\ receiver # <<>>
    /\ LET f == Head(receiver)
       IN  \/ f.data = "Video" /\ Active(ffmpeg_context, "video")
           \/ f.data = "Audio" /\ Active(ffmpeg_context, "audio")
           \/ f.data = "Configure"
           \/ f.data = "End" /\ ffmpeg_context # "None"

\* the filter-pull stage of s has pulled a frame, which it logs
FilterLogs(s) == pc = "stage" /\ filt'[s] < filt[s]

\* the encode-write stage of s has retrieved a packet, which it logs
EncodeLogs(s) ==
    pc = "stage" /\ encIn'[s] + encOut'[s] < encIn[s] + encOut[s]

\* C24: once the logger thread has terminated and its channel is closed,
\* every event the worker tries to log, from frame handling, from a
\* filter-pull stage or from an encode-write stage of either stream, makes
\* the drive loop return a log-send error.
C24_DeadLoggerAbortsLoop ==
    [][(/\ logger = "dead"
        /\ \/ FrameLogs
           \/ \E s \in Streams : FilterLogs(s) \/ EncodeLogs(s)) =>
         (pc' = "exit" /\ loopResult' = "LogSendError")]_vars

\* C25: whatever the worker's state, Draining included, an iteration whose
\* try_recv finds the queue empty and every Sender dropped makes the loop
\* return the channel-receive error at once: no stage is evaluated, what the
\* filters and encoders hold stays there, and no trailer is written.
C25_DisconnectedAbortsLoop ==
    [][/\ (pc = "recv" /\ pc' # "recv" /\ receiver = <<>> /\ ~senderAlive) =>
            /\ pc' = "exit"
            /\ loopResult' = "ChannelRecvError"
            /\ operation_results' = operation_results
            /\ UNCHANGED <<filt, encIn, encOut, draining, written, trailers>>
       /\ loopResult' = "ChannelRecvError" => trailers' = 0]_vars

\* the collector was dropped after End: the loop returned while the video
\* encoder still held a frame
C25_Witness ==
    /\ loopResult = "ChannelRecvError"
    /\ is_ending
    /\ encIn["video"] > 0
    /\ trailers = 0
    /\ pc = "exit"

\* C26: whenever is_ending is set a Session exists and exactly the slots of
\* its streams are bound, so the trailer is never reached with a stage table
\* that has no slot bound.
C26_EndingImpliesBoundSession ==
    /\ is_ending =>
         /\ ffmpeg_context # "None"
         /\ \A i \in 0..3 :
              ffmpeg_operations[i] <=> Active(ffmpeg_context, StreamOf(i))
    /\ (pc = "trailer" \/ trailers > 0) =>
         \E i \in 0..3 : ffmpeg_operations[i]

\* an Audio-only session, its video slots unbound, is about to write the trailer
C26_Witness ==
    /\ is_ending
    /\ ffmpeg_context = "Audio"
    /\ ~ffmpeg_operations[0]
    /\ ffmpeg_operations[3]
    /\ pc = "trailer"

\* C27: an End frame dequeued without a Session panics the worker thread:
\* is_ending stays false and no trailer is written, then or later; is_ending
\* is set only by an End frame dequeued with a Session.
C27_EndWithoutSessionPanics ==
    [][/\ (pc = "recv" /\ pc' # "recv" /\ receiver # <<>>
             /\ Head(receiver).data = "End" /\ ffmpeg_context = "None") =>
            /\ pc' = "panicked"
            /\ joinResult' = "Panic"
            /\ ~is_ending'
            /\ trailers' = trailers
       /\ (is_ending' /\ ~is_ending) =>
            /\ ffmpeg_context # "None"
            /\ pc = "recv"
            /\ receiver # <<>>
            /\ Head(receiver).data = "End"
       /\ pc = "panicked" =>
            /\ pc' = "panicked"
            /\ is_ending' = is_ending
            /\ trailers' = trailers]_vars

\* the only frame enqueued was End, and it was dequeued
C27_Witness ==
    /\ pc = "panicked"
    /\ ffmpeg_context = "None"
    /\ prodEnded
    /\ sent = 1
    /\ receiver = <<>>
    /\ ~is_ending

\* C28: an encoder that has accepted end-of-stream is not handed a frame
\* again, whatever frames are enqueued, media frames after End included.
C28_NoFrameAfterEof ==
    [][\A s \in Streams :
         draining[s] => ~(filt'[s] < filt[s] /\ WriteLogOk)]_vars

====
